---- MODULE Spec2Model ----
(***************************************************************************)
(* CampusConnect (campus_connect.py): the data store (User, Opportunity,   *)
(* Application), the login helper, the three role dashboards and the       *)
(* recommendation scorer, as a state machine.                              *)
(*                                                                         *)
(* A text (Python str) is a sequence of one-character strings, so that     *)
(* lower(), split(",") and the substring test are computed, not assumed.   *)
(* An optional column (x | None) is the empty set for None and {v} for v.  *)
(***************************************************************************)
EXTENDS Integers, Sequences, FiniteSets, TLC

VARIABLES users, opps, apps, user_id, flash, req, matches, pc

(* users    the User table, a row's id being its position                   *)
(* opps     the Opportunity table, in row order                            *)
(* apps     the Application table, in row order                            *)
(* user_id  st.session_state["user_id"] of each browser session            *)
(* flash    what the last run showed with st.success, st.warning, st.error *)
(* req      the apply request of each session that has run its existence   *)
(*          query and not yet committed (SpecConc)                         *)
(* matches  the list the Recommended tab rendered last (SpecRank)          *)
(* pc       "rendered" when matches is the ranking of the stored           *)
(*          preferences and opportunities, "start" otherwise               *)

vars == <<users, opps, apps, user_id, flash, req, matches, pc>>

----------------------------------------------------------------------------
(* Bounds of the model.                                                    *)

\* Opportunity rows the store may hold in Spec and SpecConc (seed included).
MaxOpps == 2

\* Opportunity rows posted after the seed row in the listings SpecRank ranks.
MaxPosted == 2

\* Browser sessions (st.session_state instances).
Sessions == {"s1", "s2"}

----------------------------------------------------------------------------
(* Python values.                                                          *)

None == {}

Some(v) == {v}

\* The value inside Some(v).
The(o) == CHOOSE v \in o : TRUE

\* bool(o) of an optional text: None and "" are falsy.
TruthyText(o) == o # None /\ The(o) # <<>>

\* bool(o) of an optional number: None and 0 are falsy.
TruthyInt(o) == o # None /\ The(o) # 0

\* o or ""
OrEmpty(o) == IF TruthyText(o) THEN The(o) ELSE <<>>

UpperCase == <<"A","B","C","D","E","F","G","H","I","J","K","L","M",
               "N","O","P","Q","R","S","T","U","V","W","X","Y","Z">>

LowerCase == <<"a","b","c","d","e","f","g","h","i","j","k","l","m",
               "n","o","p","q","r","s","t","u","v","w","x","y","z">>

LowerChar(c) ==
    IF \E i \in 1..Len(UpperCase) : UpperCase[i] = c
    THEN LowerCase[CHOOSE i \in 1..Len(UpperCase) : UpperCase[i] = c]
    ELSE c

\* str.lower()
Lower(t) == [i \in 1..Len(t) |-> LowerChar(t[i])]

\* Position of the first "," of t, or 0.
FirstComma(t) ==
    IF \E i \in 1..Len(t) : t[i] = ","
    THEN CHOOSE i \in 1..Len(t) : t[i] = "," /\ \A j \in 1..(i-1) : t[j] # ","
    ELSE 0

RECURSIVE Split(_)
\* str.split(","): one token more than there are commas, empty tokens kept.
Split(t) ==
    LET k == FirstComma(t) IN
    IF k = 0 THEN <<t>>
    ELSE <<SubSeq(t, 1, k-1)>> \o Split(SubSeq(t, k+1, Len(t)))

\* set(seq)
ToSet(seq) == {seq[i] : i \in 1..Len(seq)}

\* `a in b` for two texts.
Contains(b, a) ==
    \E i \in 0..(Len(b) - Len(a)) : SubSeq(b, i+1, i+Len(a)) = a

----------------------------------------------------------------------------
(* Texts used as inputs.                                                   *)

Txt_Python_React_SQL ==
    <<"P","y","t","h","o","n",",","R","e","a","c","t",",","S","Q","L">>

Txt_python_react_sql ==
    <<"p","y","t","h","o","n",",","r","e","a","c","t",",","s","q","l">>

Txt_python == <<"p","y","t","h","o","n">>

Txt_react_sql == <<"r","e","a","c","t",",","s","q","l">>

Txt_React_JS_HTML_CSS ==
    <<"R","e","a","c","t",",","J","S",",","H","T","M","L",",","C","S","S">>

\* A required-skills text typed with a trailing comma.
Txt_React_comma == <<"R","e","a","c","t",",">>

Txt_SQL_Python == <<"S","Q","L",",","P","y","t","h","o","n">>

Txt_Go == <<"G","o">>

Txt_Ranchi == <<"R","a","n","c","h","i">>

Txt_New_Delhi == <<"N","e","w"," ","D","e","l","h","i">>

Txt_delhi == <<"d","e","l","h","i">>

Txt_x == <<"x">>

----------------------------------------------------------------------------
(* The tables.                                                             *)

Role == {"student", "placementCell", "facultyMentor", "employer"}

ApplicationStatus == {"applied", "approved", "rejected"}

\* pwd_context.hash: the stored value is not the password itself.
PwdHash(password) == <<"$2b$", password>>

\* pwd_context.verify
PwdVerify(password, hashed) == PwdHash(password) = hashed

\* A User row (name and department are display-only and left out).
User(email, role, skills) ==
    [email |-> email, role |-> role, hashed_password |-> PwdHash("123"),
     location_pref |-> None, min_stipend_pref |-> None,
     max_stipend_pref |-> None, placement_conversion_pref |-> FALSE,
     skills |-> skills]

\* The four users create_db_and_seed inserts; a row's id is its position.
SeedUsers ==
    << User("student@example.com", "student", Some(Txt_Python_React_SQL)),
       User("placement@example.com", "placementCell", None),
       User("mentor@example.com", "facultyMentor", None),
       User("employer@example.com", "employer", None) >>

\* The Opportunity create_db_and_seed inserts, posted by the placement cell.
SeedOpportunity ==
    [title |-> "Frontend Developer Intern", company |-> "Tech Solutions",
     description |-> "Work on React projects",
     required_skills |-> Txt_React_JS_HTML_CSS, department |-> "CSE",
     stipend |-> 15000, duration |-> "6 months", location |-> Txt_Ranchi,
     placement_conversion |-> TRUE, posted_by |-> 2]

\* Application(student_id=..., opportunity_id=...) with the column defaults.
Application(student, opp) ==
    [student_id |-> student, opportunity_id |-> opp, status |-> "applied",
     mentor_status |-> "pending", mentor_comments |-> None]

\* What a run shows through st.success / st.warning / st.error.
MsgNone == "none"

MsgInvalid == "Invalid credentials (try student@example.com / 123)"

MsgAlready == "Already applied!"

MsgApplied == "Applied successfully!"

MsgSaved == "Preferences saved!"

MsgApproved == "Approved"

MsgRejected == "Rejected"

MsgFillAll == "Please fill all mandatory fields!"

MsgPosted == "Posted successfully!"

\* No apply request of the session is between its query and its commit.
Idle == [step |-> "idle", student |-> 0, opp |-> 0]

Init ==
    /\ users = SeedUsers
    /\ opps = <<SeedOpportunity>>
    /\ apps = <<>>
    /\ user_id = [s \in Sessions |-> None]
    /\ flash = MsgNone
    /\ req = [s \in Sessions |-> Idle]
    /\ matches = <<>>
    /\ pc = "start"

----------------------------------------------------------------------------
(* Login.                                                                  *)

\* select(User).where(User.email == email), in row order.
UsersByEmail(email) == {i \in 1..Len(users) : users[i].email = email}

Min(S) == CHOOSE x \in S : \A y \in S : x <= y

\* verify_user, were the password not verified.
verify_userAnyPassword(email, password) ==
    IF UsersByEmail(email) # {} THEN Some(Min(UsersByEmail(email))) ELSE None

\* The id of the first user with the email when the password verifies, else None.
verify_user(email, password) ==
    LET found == UsersByEmail(email) IN
    IF found # {} /\ PwdVerify(password, users[Min(found)].hashed_password)
    THEN Some(Min(found))
    ELSE None

\* main(): the user of the session, when its user_id is set.
LoggedIn(s) == user_id[s] # None

CurrentUser(s) == The(user_id[s])

RoleOf(s) == users[CurrentUser(s)].role

\* login_ui, Login pressed.
Login(s, email, password) ==
    /\ ~LoggedIn(s)
    /\ LET user == verify_user(email, password) IN
       IF user # None
       THEN /\ user_id' = [user_id EXCEPT ![s] = user]
            /\ flash' = MsgNone
       ELSE /\ flash' = MsgInvalid
            /\ UNCHANGED user_id
    /\ UNCHANGED <<users, opps, apps, req, matches, pc>>

\* main(), Logout pressed.
Logout(s) ==
    /\ LoggedIn(s)
    /\ user_id' = [user_id EXCEPT ![s] = None]
    /\ flash' = MsgNone
    /\ UNCHANGED <<users, opps, apps, req, matches, pc>>

----------------------------------------------------------------------------
(* Student dashboard: applying.                                            *)

\* select(Application).where(student_id == ... & opportunity_id == ...).first()
ExistingApplication(student, opp) ==
    \E a \in 1..Len(apps) :
        apps[a].student_id = student /\ apps[a].opportunity_id = opp

\* session.add(app); session.commit()
InsertApplication(student, opp) ==
    apps' = Append(apps, Application(student, opp))

\* Apply, were the existence query left out.
ApplyWithoutCheck(s, o) ==
    /\ LoggedIn(s) /\ RoleOf(s) = "student"
    /\ o \in 1..Len(opps)
    /\ InsertApplication(CurrentUser(s), o)
    /\ flash' = MsgApplied
    /\ UNCHANGED <<users, opps, user_id, req, matches, pc>>

\* "Apply to ..." pressed for opportunity o, the run going to its end before
\* any other run starts.
Apply(s, o) ==
    /\ LoggedIn(s) /\ RoleOf(s) = "student"
    /\ o \in 1..Len(opps)
    /\ IF ExistingApplication(CurrentUser(s), o)
       THEN /\ flash' = MsgAlready
            /\ UNCHANGED apps
       ELSE /\ InsertApplication(CurrentUser(s), o)
            /\ flash' = MsgApplied
    /\ UNCHANGED <<users, opps, user_id, req, matches, pc>>

\* The same run in two steps, for runs of different sessions that interleave:
\* first the existence query ...
ApplyCheck(s, o) ==
    /\ LoggedIn(s) /\ RoleOf(s) = "student"
    /\ req[s] = Idle
    /\ o \in 1..Len(opps)
    /\ IF ExistingApplication(CurrentUser(s), o)
       THEN /\ flash' = MsgAlready
            /\ UNCHANGED req
       ELSE /\ req' = [req EXCEPT ![s] = [step |-> "checked",
                                          student |-> CurrentUser(s), opp |-> o]]
            /\ UNCHANGED flash
    /\ UNCHANGED <<users, opps, apps, user_id, matches, pc>>

\* ApplyInsert, were the pair unique in the store (the insert refused when a
\* row of the pair is there by then).
ApplyInsertUnlessPresent(s) ==
    /\ req[s].step = "checked"
    /\ IF ExistingApplication(req[s].student, req[s].opp)
       THEN /\ flash' = MsgAlready
            /\ UNCHANGED apps
       ELSE /\ InsertApplication(req[s].student, req[s].opp)
            /\ flash' = MsgApplied
    /\ req' = [req EXCEPT ![s] = Idle]
    /\ UNCHANGED <<users, opps, user_id, matches, pc>>

\* ... then the insert and its commit, whatever was committed in between.
ApplyInsert(s) ==
    /\ req[s].step = "checked"
    /\ InsertApplication(req[s].student, req[s].opp)
    /\ flash' = MsgApplied
    /\ req' = [req EXCEPT ![s] = Idle]
    /\ UNCHANGED <<users, opps, user_id, matches, pc>>

----------------------------------------------------------------------------
(* Student dashboard: preferences.                                         *)

\* The values of prefs_form, submitted.
PrefsForm(loc, min_stip, max_stip, conv, skills_input) ==
    [loc |-> loc, min_stip |-> min_stip, max_stip |-> max_stip,
     conv |-> conv, skills_input |-> skills_input]

\* u.location_pref, ..., u.skills = loc, min_stip, max_stip, conv, skills_input
WithPreferences(u, f) ==
    [u EXCEPT !.location_pref = Some(f.loc),
              !.min_stipend_pref = Some(f.min_stip),
              !.max_stipend_pref = Some(f.max_stip),
              !.placement_conversion_pref = f.conv,
              !.skills = Some(f.skills_input)]

\* "Save Preferences" submitted. A ranking shown before is no longer the
\* ranking of the stored preferences.
SavePreferences(s, f) ==
    /\ LoggedIn(s) /\ RoleOf(s) = "student"
    /\ users' = [users EXCEPT ![CurrentUser(s)] = WithPreferences(@, f)]
    /\ flash' = MsgSaved
    /\ matches' = <<>>
    /\ pc' = "start"
    /\ UNCHANGED <<opps, apps, user_id, req>>

----------------------------------------------------------------------------
(* Student dashboard: recommendations.                                     *)

\* set((user.skills or "").lower().split(","))
StudentSkills(user) == ToSet(Split(Lower(OrEmpty(user.skills))))

\* set(opp.required_skills.lower().split(","))
OppSkills(opp) == ToSet(Split(Lower(opp.required_skills)))

\* len(student_skills & opp_skills)
SkillMatches(user, opp) == Cardinality(StudentSkills(user) \cap OppSkills(opp))

\* user.location_pref and user.location_pref.lower() in opp.location.lower()
LocationPoint(user, opp) ==
    IF /\ TruthyText(user.location_pref)
       /\ Contains(Lower(opp.location), Lower(The(user.location_pref)))
    THEN 1 ELSE 0

\* user.min_stipend_pref and opp.stipend >= user.min_stipend_pref
MinStipendPoint(user, opp) ==
    IF /\ TruthyInt(user.min_stipend_pref)
       /\ opp.stipend >= The(user.min_stipend_pref)
    THEN 1 ELSE 0

\* user.max_stipend_pref and opp.stipend <= user.max_stipend_pref
MaxStipendPoint(user, opp) ==
    IF /\ TruthyInt(user.max_stipend_pref)
       /\ opp.stipend <= The(user.max_stipend_pref)
    THEN 1 ELSE 0

\* user.placement_conversion_pref and opp.placement_conversion
ConversionPoint(user, opp) ==
    IF user.placement_conversion_pref /\ opp.placement_conversion THEN 1 ELSE 0

\* Score, were the minimum compared without asking whether it is set.
ScoreMinUnguarded(user, opp) ==
    LocationPoint(user, opp)
    + (IF opp.stipend >= (IF user.min_stipend_pref = None THEN 0
                          ELSE The(user.min_stipend_pref)) THEN 1 ELSE 0)
    + MaxStipendPoint(user, opp)
    + ConversionPoint(user, opp) + SkillMatches(user, opp)

\* score, after the loop body has added every point to it.
Score(user, opp) ==
    LET s0 == 0
        s1 == s0 + LocationPoint(user, opp)
        s2 == s1 + MinStipendPoint(user, opp)
        s3 == s2 + MaxStipendPoint(user, opp)
        s4 == s3 + ConversionPoint(user, opp)
    IN  s4 + SkillMatches(user, opp)

\* Keep, were the test score >= 0.
KeepAll(score) == score >= 0

\* if score > 0
Keep(score) == score > 0

RECURSIVE Collect(_, _, _)
\* matches, after the loop over the first n opportunities of the listing:
\* (opp, score, skill_matches), the opportunity given by its row id.
Collect(user, listing, n) ==
    IF n = 0 THEN <<>>
    ELSE LET rest == Collect(user, listing, n - 1)
             score == Score(user, listing[n])
         IN  IF Keep(score)
             THEN Append(rest, [opp |-> n, score |-> score,
                                skill_matches |-> SkillMatches(user, listing[n])])
             ELSE rest

\* Insert, were the sort not stable (ties end up in reverse listing order, as
\* after an ascending sort followed by reverse()).
InsertBeforeEqual(sorted, e) ==
    LET k == Cardinality({i \in 1..Len(sorted) : sorted[i].score > e.score})
    IN  SubSeq(sorted, 1, k) \o <<e>> \o SubSeq(sorted, k + 1, Len(sorted))

\* One step of list.sort(key=score, reverse=True): the entry goes after every
\* entry already placed whose score is at least its own (the sort is stable,
\* and stays so under reverse=True).
Insert(sorted, e) ==
    LET k == Cardinality({i \in 1..Len(sorted) : sorted[i].score >= e.score})
    IN  SubSeq(sorted, 1, k) \o <<e>> \o SubSeq(sorted, k + 1, Len(sorted))

RECURSIVE SortByScore(_)
\* matches.sort(key=lambda x: x[1], reverse=True)
SortByScore(seq) ==
    IF seq = <<>> THEN <<>>
    ELSE Insert(SortByScore(SubSeq(seq, 1, Len(seq) - 1)), seq[Len(seq)])

\* The entries the Recommended tab shows, in the order it shows them.
RankedMatches(user, listing) ==
    SortByScore(Collect(user, listing, Len(listing)))

\* A run of the student dashboard that renders the Recommended tab.
Recommend(s) ==
    /\ LoggedIn(s) /\ RoleOf(s) = "student"
    /\ matches' = RankedMatches(users[CurrentUser(s)], opps)
    /\ pc' = "rendered"
    /\ flash' = MsgNone
    /\ UNCHANGED <<users, opps, apps, user_id, req>>

----------------------------------------------------------------------------
(* Faculty dashboard.                                                      *)

\* PendingApplications, were the query not filtered.
AnyApplications == 1..Len(apps)

\* select(Application).where(Application.mentor_status == "pending")
PendingApplications ==
    {a \in 1..Len(apps) : apps[a].mentor_status = "pending"}

\* Decided, were status not assigned.
DecidedMentorOnly(app, decision) ==
    [app EXCEPT !.mentor_status = decision,
                !.mentor_comments = Some(IF decision = "approved"
                                         THEN "Approved" ELSE "Rejected")]

\* app.mentor_status, app.status, app.mentor_comments = ...
Decided(app, decision) ==
    [app EXCEPT !.mentor_status = decision,
                !.status = decision,
                !.mentor_comments = Some(IF decision = "approved"
                                         THEN "Approved" ELSE "Rejected")]

\* Approve or Reject pressed on the buttons of application a. The buttons may
\* be those of a page rendered earlier; the run queries the pending
\* applications anew and renders, and so obeys, only their buttons.
Decide(s, a, decision) ==
    /\ LoggedIn(s) /\ RoleOf(s) = "facultyMentor"
    /\ a \in 1..Len(apps)
    /\ IF a \in PendingApplications
       THEN /\ apps' = [apps EXCEPT ![a] = Decided(@, decision)]
            /\ flash' = IF decision = "approved" THEN MsgApproved ELSE MsgRejected
       ELSE /\ flash' = MsgNone
            /\ UNCHANGED apps
    /\ UNCHANGED <<users, opps, user_id, req, matches, pc>>

----------------------------------------------------------------------------
(* Placement cell / employer dashboard.                                    *)

\* FormValid, were company not among the tested fields.
FormValidCompanyOptional(f) ==
    /\ f.title # "" /\ f.description # ""
    /\ f.required_skills # <<>> /\ f.department # "" /\ f.location # <<>>

\* title and company and desc and skills and dept and loc
FormValid(f) ==
    /\ f.title # "" /\ f.company # "" /\ f.description # ""
    /\ f.required_skills # <<>> /\ f.department # "" /\ f.location # <<>>

\* Opportunity(title=title, ..., posted_by=user.id)
OpportunityOf(f, poster) ==
    [title |-> f.title, company |-> f.company, description |-> f.description,
     required_skills |-> f.required_skills, department |-> f.department,
     stipend |-> f.stipend, duration |-> f.duration, location |-> f.location,
     placement_conversion |-> f.placement_conversion, posted_by |-> poster]

\* "Post Opportunity" submitted; main() sends every role other than student
\* and facultyMentor to this dashboard.
PostOpportunity(s, f) ==
    /\ LoggedIn(s) /\ RoleOf(s) \notin {"student", "facultyMentor"}
    /\ IF ~FormValid(f)
       THEN /\ flash' = MsgFillAll
            /\ UNCHANGED opps
       ELSE /\ Len(opps) < MaxOpps
            /\ opps' = Append(opps, OpportunityOf(f, CurrentUser(s)))
            /\ flash' = MsgPosted
    /\ UNCHANGED <<users, apps, user_id, req, matches, pc>>

----------------------------------------------------------------------------
(* Inputs.                                                                 *)

\* The seeded emails and one nobody has.
Emails == {SeedUsers[i].email : i \in 1..Len(SeedUsers)} \cup {"nobody@example.com"}

Passwords == {"123", "wrong"}

Decisions == {"approved", "rejected"}

\* A post_opp_form with the six mandatory fields filled; Duration, which is
\* not among them, is left empty.
FilledForm ==
    [title |-> "Backend Intern", company |-> "Acme", description |-> "APIs",
     required_skills |-> Txt_SQL_Python, department |-> "IT", stipend |-> 5000,
     duration |-> "", location |-> Txt_New_Delhi,
     placement_conversion |-> FALSE]

\* The filled form, and the forms with one mandatory field left empty.
PostForms ==
    { FilledForm,
      [FilledForm EXCEPT !.title = ""],
      [FilledForm EXCEPT !.company = ""],
      [FilledForm EXCEPT !.description = ""],
      [FilledForm EXCEPT !.required_skills = <<>>],
      [FilledForm EXCEPT !.department = ""],
      [FilledForm EXCEPT !.location = <<>>] }

\* The preference form submitted in Spec.
PrefForms ==
    { PrefsForm(Txt_Ranchi, 10000, 0, TRUE, Txt_python_react_sql) }

\* Preference forms submitted in SpecRank.
RankForms ==
    { PrefsForm(loc, min_stip, max_stip, conv, skills_input) :
        loc \in {<<>>, Txt_Ranchi, Txt_delhi},
        min_stip \in {0, 10000},
        max_stip \in {0, 10000},
        conv \in BOOLEAN,
        skills_input \in {<<>>, Txt_python, Txt_python_react_sql} }

\* Opportunities posted after the seed row, in SpecRank.
RankOpps ==
    { OpportunityOf([FilledForm EXCEPT !.required_skills = Txt_React_comma], 4),
      OpportunityOf([FilledForm EXCEPT !.stipend = 15000, !.location = Txt_Ranchi,
                                       !.placement_conversion = TRUE], 2),
      OpportunityOf([FilledForm EXCEPT !.required_skills = Txt_Go], 4) }

RECURSIVE SeqsUpTo(_, _)
\* The sequences over S of length at most n.
SeqsUpTo(S, n) ==
    IF n = 0 THEN {<<>>}
    ELSE LET shorter == SeqsUpTo(S, n - 1)
         IN  shorter \cup {Append(q, x) : q \in shorter, x \in S}

----------------------------------------------------------------------------
(* Spec: every run goes to its end before the next one starts.             *)

Next ==
    \E s \in Sessions :
        \/ \E email \in Emails, password \in Passwords : Login(s, email, password)
        \/ Logout(s)
        \/ \E o \in 1..Len(opps) : Apply(s, o)
        \/ \E f \in PrefForms : SavePreferences(s, f)
        \/ \E a \in 1..Len(apps), d \in Decisions : Decide(s, a, d)
        \/ \E f \in PostForms : PostOpportunity(s, f)

Spec == Init /\ [][Next]_vars

(* SpecConc: the apply runs of different sessions interleave between the   *)
(* existence query and the commit.                                         *)

\* A session has one script thread: it starts no other run while its apply
\* run is between the query and the commit.
NextConc ==
    \E s \in Sessions :
        \/ /\ req[s] = Idle
           /\ \E email \in Emails, password \in Passwords : Login(s, email, password)
        \/ /\ req[s] = Idle
           /\ Logout(s)
        \/ \E o \in 1..Len(opps) : ApplyCheck(s, o)
        \/ ApplyInsert(s)
        \/ /\ req[s] = Idle
           /\ \E f \in PostForms : PostOpportunity(s, f)

SpecConc == Init /\ [][NextConc]_vars

(* SpecRank: the seeded student, logged in, with any stored preferences    *)
(* over any listing; the runs save preferences and render the ranking.     *)

InitRank ==
    /\ \E u \in {SeedUsers[1]} \cup {WithPreferences(SeedUsers[1], f) : f \in RankForms} :
           users = [SeedUsers EXCEPT ![1] = u]
    /\ \E posted \in SeqsUpTo(RankOpps, MaxPosted) :
           opps = <<SeedOpportunity>> \o posted
    /\ apps = <<>>
    /\ user_id = [s \in Sessions |-> IF s = "s1" THEN Some(1) ELSE None]
    /\ flash = MsgNone
    /\ req = [s \in Sessions |-> Idle]
    /\ matches = <<>>
    /\ pc = "start"

NextRank ==
    \E s \in Sessions :
        \/ \E f \in RankForms : SavePreferences(s, f)
        \/ Recommend(s)

SpecRank == InitRank /\ [][NextRank]_vars

----------------------------------------------------------------------------
(* Properties.                                                             *)

\* The Application rows of one (student, opportunity) pair, in a table.
RowsOf(table, student, opp) ==
    {a \in 1..Len(table) :
        table[a].student_id = student /\ table[a].opportunity_id = opp}

AtMostOnePerPair ==
    \A a, b \in 1..Len(apps) :
        (/\ apps[a].student_id = apps[b].student_id
         /\ apps[a].opportunity_id = apps[b].opportunity_id) => a = b

\* C1: with every apply run going to its end before the next starts, there is
\* at most one Application per (student, opportunity) pair, and an apply for a
\* pair that has one adds no row and shows "Already applied!".
C1_ApplyIdempotent ==
    /\ []AtMostOnePerPair
    /\ [][\A s \in Sessions : \A o \in 1..Len(opps) :
            (Apply(s, o) /\ RowsOf(apps, CurrentUser(s), o) # {})
                => (apps' = apps /\ flash' = MsgAlready)]_vars

\* A second apply has been answered with the warning, and the pair has its row.
C1_Witness ==
    /\ flash = MsgAlready
    /\ \E o \in 1..Len(opps) : Cardinality(RowsOf(apps, 1, o)) = 1

\* C2: once mentor_status is approved or rejected, no step changes the
\* application's status or mentor_status (nor removes the row).
C2_DecisionIsFinal ==
    [][\A a \in 1..Len(apps) :
          apps[a].mentor_status \in {"approved", "rejected"}
              => /\ a <= Len(apps')
                 /\ apps'[a].status = apps[a].status
                 /\ apps'[a].mentor_status = apps[a].mentor_status]_vars

\* One application is approved and another rejected, a mentor is still logged
\* in, and the last run was a click that changed nothing.
C2_Witness ==
    /\ \E a \in 1..Len(apps) : apps[a].mentor_status = "approved"
    /\ \E a \in 1..Len(apps) : apps[a].mentor_status = "rejected"
    /\ \E s \in Sessions : LoggedIn(s) /\ RoleOf(s) = "facultyMentor"
    /\ flash = MsgNone

\* C3: every Application's (status, mentor_status) is (applied, pending),
\* (approved, approved) or (rejected, rejected).
C3_StatusLockstep ==
    \A a \in 1..Len(apps) :
        <<apps[a].status, apps[a].mentor_status>> \in
            { <<"applied", "pending">>, <<"approved", "approved">>,
              <<"rejected", "rejected">> }

\* A decided application next to one still pending.
C3_Witness ==
    /\ \E a \in 1..Len(apps) : apps[a].status = "rejected"
    /\ \E a \in 1..Len(apps) : apps[a].status = "applied"

\* One of the six mandatory fields of a post_opp_form is empty.
MandatoryFieldEmpty(f) ==
    \/ f.title = "" \/ f.company = "" \/ f.description = ""
    \/ f.required_skills = <<>> \/ f.department = "" \/ f.location = <<>>

\* C4: a post with a mandatory field empty shows the validation warning and
\* leaves the Opportunity table as it was; a post with all six filled adds
\* exactly one row, whose posted_by is the submitting user's id.
C4_PostValidated ==
    [][\A s \in Sessions : \A f \in PostForms :
          PostOpportunity(s, f) =>
              IF MandatoryFieldEmpty(f)
              THEN opps' = opps /\ flash' = MsgFillAll
              ELSE /\ Len(opps') = Len(opps) + 1
                   /\ SubSeq(opps', 1, Len(opps)) = opps
                   /\ opps'[Len(opps')].posted_by = CurrentUser(s)
                   /\ opps'[Len(opps')].title = f.title]_vars

\* The employer has posted an opportunity, and a later post was refused.
C4_Witness ==
    /\ Len(opps) = 2
    /\ opps[2].posted_by = 4
    /\ flash = MsgFillAll

\* The user whose email and password these are, if any.
Credentialed(email, password) ==
    {i \in 1..Len(users) :
        users[i].email = email /\ users[i].hashed_password = PwdHash(password)}

\* C9: verify_user returns a user only when one with the email exists and the
\* password matches its hash; a wrong password for a known email and an
\* unknown email both give None, and a login run that gets None shows the one
\* generic error and leaves the session's user_id unset.
C9_LoginGeneric ==
    /\ [](\A email \in Emails, password \in Passwords :
            /\ verify_user(email, password) \subseteq Credentialed(email, password)
            /\ Credentialed(email, password) = {}
                   => verify_user(email, password) = None)
    /\ [][\A s \in Sessions : \A email \in Emails, password \in Passwords :
            (Login(s, email, password) /\ Credentialed(email, password) = {})
                => (flash' = MsgInvalid /\ user_id'[s] = None)]_vars

\* A login was refused while another session is logged in.
C9_Witness ==
    /\ flash = MsgInvalid
    /\ \E s \in Sessions : ~LoggedIn(s)
    /\ \E s \in Sessions : LoggedIn(s)

\* C10: a request that found no Application at its query inserts one at its
\* commit even when another request has committed one for the same pair in
\* between, so two requests that both ran the query first leave two rows.
C10_CheckThenInsertRace ==
    [][\A s \in Sessions :
          (req[s].step = "checked" /\ req'[s].step = "idle")
              => Cardinality(RowsOf(apps', req[s].student, req[s].opp))
                   = Cardinality(RowsOf(apps, req[s].student, req[s].opp)) + 1]_vars

\* Two Application rows of one pair.
C10_Witness ==
    \E o \in 1..Len(opps) : Cardinality(RowsOf(apps, 1, o)) = 2

----------------------------------------------------------------------------
(* Properties of the ranking, over SpecRank.                               *)

\* The student whose Recommended tab is rendered.
Student == users[1]

\* The row ids of the opportunities the rendered ranking shows.
Shown == {matches[i].opp : i \in 1..Len(matches)}

\* C5: an opportunity whose total score is 0 is not in the rendered ranking,
\* and every entry of the ranking carries a total score of at least 1.
C5_ZeroScoreExcluded ==
    pc = "rendered" =>
        /\ \A o \in 1..Len(opps) : Score(Student, opps[o]) = 0 => o \notin Shown
        /\ \A i \in 1..Len(matches) :
              /\ matches[i].score >= 1
              /\ matches[i].score = Score(Student, opps[matches[i].opp])

\* A ranking that shows one stored opportunity and leaves another out.
C5_Witness ==
    /\ pc = "rendered"
    /\ matches # <<>>
    /\ \E o \in 1..Len(opps) : Score(Student, opps[o]) = 0 /\ o \notin Shown

\* C6: the rendered ranking is in descending order of total score, and two
\* entries of equal score are in the order of their rows in the listing.
C6_StableDescending ==
    pc = "rendered" =>
        /\ Cardinality(Shown) = Len(matches)
        /\ \A i, j \in 1..Len(matches) :
              i < j => /\ matches[i].score >= matches[j].score
                       /\ matches[i].score = matches[j].score
                              => matches[i].opp < matches[j].opp

\* A ranking with a tie, in which a later row is also shown above an earlier one.
C6_Witness ==
    /\ pc = "rendered"
    /\ \E i, j \in 1..Len(matches) :
          i < j /\ matches[i].score = matches[j].score
    /\ \E i, j \in 1..Len(matches) :
          i < j /\ matches[i].opp > matches[j].opp

\* The lowercased comma-split tokens of a text: what lies between two
\* neighbouring cuts, the cuts being the commas and the two ends of the text.
Tokens(text) ==
    LET low == Lower(text)
        cuts == {0, Len(low) + 1} \cup {i \in 1..Len(low) : low[i] = ","}
        neighbours == {p \in cuts \X cuts :
                          /\ p[1] < p[2]
                          /\ ~\E c \in cuts : p[1] < c /\ c < p[2]}
    IN  {SubSeq(low, p[1] + 1, p[2] - 1) : p \in neighbours}

\* The skill text gets further comma-delimited skills at its end: the skills
\* themselves when there was no text, else a comma and the skills.
AppendSkills(text, more) ==
    IF text = <<>> THEN more ELSE text \o <<",">> \o more

\* Skills a student may add.
MoreSkills == {Txt_python, Txt_react_sql}

\* C7: the skill-match count is the size of the intersection of the lowercased
\* comma-split token sets of the student's skill text and the required-skills
\* text, and appending skills to the student's text (empty or unset included)
\* never lowers it for any opportunity.
C7_SkillMatchMonotonic ==
    /\ [](\A o \in 1..Len(opps) :
            SkillMatches(Student, opps[o])
              = Cardinality(Tokens(OrEmpty(Student.skills))
                            \cap Tokens(opps[o].required_skills)))
    /\ [][\A more \in MoreSkills :
            users'[1].skills = Some(AppendSkills(OrEmpty(Student.skills), more))
              => \A o \in 1..Len(opps) :
                    SkillMatches(users'[1], opps[o]) >= SkillMatches(Student, opps[o])]_vars

\* The four preference predicates that hold of a student and an opportunity.
PredicatesHolding(user, opp) ==
    { k \in 1..4 :
        \/ /\ k = 1
           /\ user.location_pref \notin {None, Some(<<>>)}
           /\ \E i \in 0..Len(opp.location) : \E j \in i..Len(opp.location) :
                 Lower(SubSeq(opp.location, i + 1, j)) = Lower(The(user.location_pref))
        \/ /\ k = 2
           /\ user.min_stipend_pref \notin {None, Some(0)}
           /\ opp.stipend >= The(user.min_stipend_pref)
        \/ /\ k = 3
           /\ user.max_stipend_pref \notin {None, Some(0)}
           /\ opp.stipend <= The(user.max_stipend_pref)
        \/ /\ k = 4
           /\ user.placement_conversion_pref
           /\ opp.placement_conversion }

NoPreferences(user) ==
    /\ user.location_pref \in {None, Some(<<>>)}
    /\ user.min_stipend_pref \in {None, Some(0)}
    /\ user.max_stipend_pref \in {None, Some(0)}
    /\ ~user.placement_conversion_pref

ScenarioStudent ==
    WithPreferences(SeedUsers[1],
                    PrefsForm(Txt_Ranchi, 10000, 0, TRUE, Txt_python_react_sql))

\* C8: the total score is the number of the four predicates that hold plus the
\* skill-match count; a student with no preference set scores the skill-match
\* count; the scenario student scores 4 on the seeded opportunity, 1 of it
\* for skills.
C8_ScoreIsSum ==
    pc = "rendered" =>
        /\ \A o \in 1..Len(opps) :
              LET overlap == Cardinality(Tokens(OrEmpty(Student.skills))
                                         \cap Tokens(opps[o].required_skills))
                  total == Cardinality(PredicatesHolding(Student, opps[o])) + overlap
              IN  /\ Score(Student, opps[o]) = total
                  /\ NoPreferences(Student) => Score(Student, opps[o]) = overlap
                  /\ \A i \in 1..Len(matches) :
                        matches[i].opp = o =>
                            /\ matches[i].score = total
                            /\ matches[i].skill_matches = overlap
        /\ Student = ScenarioStudent =>
              \E i \in 1..Len(matches) :
                  matches[i] = [opp |-> 1, score |-> 4, skill_matches |-> 1]

\* The scenario student's ranking, rendered.
C8_Witness ==
    /\ pc = "rendered"
    /\ Student = ScenarioStudent
    /\ matches[1].score = 4

====
